---- MODULE Spec2Model ----
(***************************************************************************)
(* The tree / scattered-cloud morph of arix-tree/src/App.tsx: the App's    *)
(* two-valued mode, the Ornaments items (tPos, sPos, curPos) advanced by   *)
(* Vector3.lerp in a per-frame callback, and the Foliage uniform uProgress *)
(* advanced by MathUtils.lerp in its own per-frame callback.  The file     *)
(* holds two variants of the scene (lines 1-150 and 151-302); `variant`    *)
(* selects which one is running.                                           *)
(*                                                                         *)
(* Arithmetic is exact.  The frame delta is a rational d / DeltaDen and a  *)
(* Math.random() draw is a rational n / RandDen, so after at most          *)
(* MaxFrames frames every coordinate is an integer multiple of 1 / Scale,  *)
(* Scale = RandDen * DeltaDen^MaxFrames.  Every length below is stored     *)
(* multiplied by Scale; uProgress = Scale stands for 1.0.                  *)
(***************************************************************************)
EXTENDS Integers, Sequences, FiniteSets, TLC

\* ---- bounds of the model ------------------------------------------------
MaxFrames == 3
NumOrnaments == 2
RandDen == 2
DeltaDen == 4
Epsilon == 2

RECURSIVE Pow(_, _)
Pow(b, n) == IF n = 0 THEN 1 ELSE b * Pow(b, n - 1)

Scale == RandDen * Pow(DeltaDen, MaxFrames)
RandUnit == Scale \div RandDen

\* Frame deltas (numerators over DeltaDen): negative, zero, a small step,
\* half a second and a whole second (a stalled tab).
Deltas == {-1, 0, 1, DeltaDen \div 2, DeltaDen}

\* Sampled outcomes of getTreePosition's two Math.random() calls: the yRatio
\* (numerator over RandDen, always < 1) and the angle (in quarter turns).
TreeDraws == {<<0, 0>>, <<1, 1>>}
\* Sampled outcomes of getScatteredPosition: the randomDirection() (an axis
\* direction) and the Math.random() of the magnitude (numerator over RandDen).
ScatterDraws == {<<<<1, 0, 0>>, 0>>, <<<<0, -1, 0>>, 1>>}
\* Sampled outcome of the separate getTreePosition call that places variant
\* 2's curPos at start.
StartDraws == {<<1, 0>>}

Variants == {1, 2}
Modes == {"TREE", "SCATTERED"}
Axes == {1, 2, 3}
Zero == <<0, 0, 0>>

VARIABLES variant, mode, items, uProgress, uTime, elapsedTime, frame, lastDelta

vars == <<variant, mode, items, uProgress, uTime, elapsedTime, frame, lastDelta>>

\* ---- vector helpers (THREE.Vector3) -------------------------------------
Cos(q) == CASE q = 0 -> 1 [] q = 1 -> 0 [] q = 2 -> -1 [] OTHER -> 0
Sin(q) == CASE q = 0 -> 0 [] q = 1 -> 1 [] q = 2 -> 0 [] OTHER -> -1

multiplyScalar(v, s) == [c \in Axes |-> v[c] * s]

\* y = (yRatio - 0.5) * 8; radius = (1 - yRatio) * 3;
\* (cos(angle) * radius, y, sin(angle) * radius)
getTreePosition(yNum, q) ==
    LET y == (yNum * RandUnit) * 8 - 4 * Scale
        radius == (Scale - yNum * RandUnit) * 3
    IN  <<Cos(q) * radius, y, Sin(q) * radius>>

\* randomDirection().multiplyScalar(Math.random() * 10 + 5)   (variant 1)
\* randomDirection().multiplyScalar(Math.random() * 8 + 4)    (variant 2)
getScatteredPosition(v, dir, rNum) ==
    IF v = 1 THEN multiplyScalar(dir, (rNum * RandUnit) * 10 + 5 * Scale)
             ELSE multiplyScalar(dir, (rNum * RandUnit) * 8 + 4 * Scale)

TreePositions == {getTreePosition(t[1], t[2]) : t \in TreeDraws}
StartPositions == {getTreePosition(t[1], t[2]) : t \in StartDraws}
ScatteredPositions(v) == {getScatteredPosition(v, s[1], s[2]) : s \in ScatterDraws}

\* The objects Array.from builds in Ornaments' useMemo.
NewItems(v) ==
    [tPos : TreePositions,
     sPos : ScatteredPositions(v),
     curPos : IF v = 1 THEN {Zero} ELSE StartPositions]

\* Smoothing rate of the Ornaments lerp: delta * 2 (variant 1), delta * 3
\* (variant 2).
OrnamentRate(v) == IF v = 1 THEN 2 ELSE 3

\* Smoothing rate of the Foliage lerp: delta * 2 in both variants.
FoliageRate == 2

\* Vector3.lerp(v, alpha): this.x += (v.x - this.x) * alpha, per axis,
\* alpha = num / DeltaDen.  No clamping of alpha.
VLerpDouble(a, v, num) ==
    [c \in Axes |-> a[c] + ((v[c] - a[c]) * (2 * num)) \div DeltaDen]

VLerpSign(a, v, num) ==
    [c \in Axes |-> a[c] + ((v[c] + a[c]) * num) \div DeltaDen]

VLerpFromOrigin(a, v, num) ==
    [c \in Axes |-> (v[c] * num) \div DeltaDen]

VLerp(a, v, num) ==
    [c \in Axes |-> a[c] + ((v[c] - a[c]) * num) \div DeltaDen]

\* MathUtils.lerp(x, y, t) = (1 - t) * x + t * y, t = num / DeltaDen.
MathLerp(x, y, num) == ((DeltaDen - num) * x + num * y) \div DeltaDen

\* const target = mode === 'SCATTERED' ? item.sPos : item.tPos
ActiveTargetSwapped(item, m) == IF m = "SCATTERED" THEN item.tPos ELSE item.sPos

ActiveTarget(item, m) == IF m = "SCATTERED" THEN item.sPos ELSE item.tPos

\* const target = mode === 'SCATTERED' ? 1 : 0
FoliageTargetSwapped(m) == IF m = "SCATTERED" THEN 0 ELSE Scale

FoliageTarget(m) == IF m = "SCATTERED" THEN Scale ELSE 0

\* One item of the forEach in Ornaments.useFrame: item.curPos.lerp(target, ..)
AdvanceItemSnap(item, m, num) == [item EXCEPT !.curPos = ActiveTarget(item, m)]

AdvanceItemAliased(item, m, num) ==
    IF m = "SCATTERED"
    THEN [item EXCEPT !.sPos = VLerp(item.sPos, item.curPos, num)]
    ELSE [item EXCEPT !.tPos = VLerp(item.tPos, item.curPos, num)]

AdvanceItem(item, m, num) ==
    [item EXCEPT !.curPos = VLerp(item.curPos, ActiveTarget(item, m), num)]

\* setMode(m => m === 'TREE' ? 'SCATTERED' : 'TREE')
NextModeTypo(m) == IF m = "TREE" THEN "SCATTER" ELSE "TREE"

NextMode(m) == IF m = "TREE" THEN "SCATTERED" ELSE "TREE"

\* ---- the state machine ---------------------------------------------------
Init ==
    /\ variant \in Variants
    /\ mode = "TREE"
    /\ items \in [1..NumOrnaments -> NewItems(variant)]
    /\ uProgress = 0
    /\ uTime = 0
    /\ elapsedTime = 0
    /\ frame = 0
    /\ lastDelta = 0

\* The button's onClick.
onClick ==
    /\ mode' = NextMode(mode)
    /\ UNCHANGED <<variant, items, uProgress, uTime, elapsedTime, frame, lastDelta>>

\* One rendered frame with delta d / DeltaDen: the host advances its clock and
\* runs both useFrame callbacks (Foliage, then Ornaments).  pointsRef.current
\* is attached before the first frame, so Foliage's early return is not taken.
useFrame(d) ==
    /\ frame < MaxFrames
    /\ elapsedTime' = elapsedTime + d
    /\ uTime' = IF variant = 1 THEN elapsedTime' ELSE uTime
    /\ uProgress' = MathLerp(uProgress, FoliageTarget(mode), FoliageRate * d)
    /\ items' = [i \in 1..NumOrnaments |->
                    AdvanceItem(items[i], mode, OrnamentRate(variant) * d)]
    /\ frame' = frame + 1
    /\ lastDelta' = d
    /\ UNCHANGED <<variant, mode>>

Frame == \E d \in Deltas : useFrame(d)

Next == onClick \/ Frame

Spec == Init /\ [][Next]_vars

\* Frames whose Foliage step factor 2 * delta lies in [0, 1].
FrameUnit == \E d \in Deltas :
    /\ 0 <= FoliageRate * d
    /\ FoliageRate * d <= DeltaDen
    /\ useFrame(d)

NextUnit == onClick \/ FrameUnit

SpecUnit == Init /\ [][NextUnit]_vars

\* The mode is chosen before the first frame and then held; every frame has
\* 0 < k * delta <= 1, and the host keeps rendering.
ChooseMode == frame = 0 /\ onClick

FrameContract == \E d \in Deltas :
    /\ 0 < OrnamentRate(variant) * d
    /\ OrnamentRate(variant) * d <= DeltaDen
    /\ useFrame(d)

NextConverge == ChooseMode \/ FrameContract

SpecConverge == Init /\ [][NextConverge]_vars /\ WF_vars(FrameContract)

\* Every division above is exact: after n frames each coordinate, and
\* uProgress, is a multiple of DeltaDen^(MaxFrames - n).
ExactArithmetic ==
    /\ uProgress % Pow(DeltaDen, MaxFrames - frame) = 0
    /\ \A i \in 1..NumOrnaments : \A c \in Axes :
          items[i].curPos[c] % Pow(DeltaDen, MaxFrames - frame) = 0

\* ---- vocabulary of the properties ---------------------------------------
\* A step that is one rendered frame.
FrameStep == frame' = frame + 1

\* The step factor k * elapsedTime of the frame being taken, over DeltaDen.
StepFactor == OrnamentRate(variant) * lastDelta'

\* The active target of particle i as the specification states it: sPos when
\* the mode is SCATTERED, tPos otherwise.
Target(i) == IF mode = "SCATTERED" THEN items[i].sPos ELSE items[i].tPos

Particles == 1..NumOrnaments

Between(a, b, t) == (a <= b /\ b <= t) \/ (t <= b /\ b <= a)

\* Every coordinate of particle i's new position lies between the old
\* position and the active target.
OnSegment(i) ==
    \A c \in Axes : Between(items[i].curPos[c], items'[i].curPos[c], Target(i)[c])

Abs(x) == IF x < 0 THEN -x ELSE x

\* Distance in the 1-norm, which bounds the Euclidean distance from above.
Dist(a, b) == Abs(a[1] - b[1]) + Abs(a[2] - b[2]) + Abs(a[3] - b[3])

Converged ==
    \A i \in Particles :
        Dist(items[i].curPos, Target(i)) < Epsilon * Scale

\* ---- C1 -------------------------------------------------------------------
\* C1: a frame called with a negative delta leaves every curPos exactly as it
\* was before the call.
C1_NegativeDeltaIsNoOp ==
    [][(FrameStep /\ lastDelta' < 0) =>
          \A i \in Particles : items'[i].curPos = items[i].curPos]_vars

\* ---- C2 -------------------------------------------------------------------
\* C2: for every non-negative delta, including k * delta > 1, one frame moves
\* curPos to a point on the segment between its old value and the active
\* target, never past the target.
C2_ClampedStepFactor ==
    [][(FrameStep /\ lastDelta' >= 0) => \A i \in Particles : OnSegment(i)]_vars

C4_NoOvershoot ==
    [][(FrameStep /\ 0 <= StepFactor /\ StepFactor <= DeltaDen) =>
          \A i \in Particles : OnSegment(i)]_vars

\* A first frame of variant 1 with 0 < k * delta < 1 has left every particle
\* strictly inside the segment from the origin to its tree position.
C4_Witness ==
    /\ variant = 1 /\ frame = 1 /\ mode = "TREE" /\ lastDelta = 1
    /\ \A i \in Particles :
          /\ items[i].curPos # Zero
          /\ items[i].curPos # items[i].tPos
          /\ multiplyScalar(items[i].curPos, DeltaDen) = multiplyScalar(items[i].tPos, 2)

\* ---- C5 -------------------------------------------------------------------
\* C5: a frame with delta = 0 leaves every curPos exactly unchanged, in either
\* mode.
C5_ZeroStepIsNoOp ==
    [][(FrameStep /\ lastDelta' = 0) =>
          \A i \in Particles : items'[i].curPos = items[i].curPos]_vars

\* After a toggle and a zero frame the particles are still at the origin, away
\* from the active target.
C5_Witness ==
    /\ variant = 1 /\ frame = 1 /\ lastDelta = 0 /\ mode = "SCATTERED"
    /\ \A i \in Particles : items[i].curPos = Zero /\ Target(i) # Zero

\* ---- C6 -------------------------------------------------------------------
\* C6: the toggle itself leaves every curPos unchanged, and a frame with
\* 0 < k * delta <= 1 starts from that position and ends strictly closer to the
\* target of the mode in force (the new one), unless it was already there.
C6_NoJumpOnToggle ==
    [][/\ (mode' # mode) => \A i \in Particles : items'[i].curPos = items[i].curPos
       /\ (FrameStep /\ 0 < StepFactor /\ StepFactor <= DeltaDen) =>
             \A i \in Particles :
                /\ OnSegment(i)
                /\ \/ items[i].curPos = Target(i)
                   \/ Dist(items'[i].curPos, Target(i)) <
                         Dist(items[i].curPos, Target(i))]_vars

\* Variant 1, one frame toward tPos, a toggle, one frame toward sPos, both with
\* delta = 1 / DeltaDen: curPos = a(1-a) tPos + a sPos, a = 2 / DeltaDen.
C6_Witness ==
    /\ variant = 1 /\ frame = 2 /\ mode = "SCATTERED" /\ lastDelta = 1
    /\ \A i \in Particles : \A c \in Axes :
          DeltaDen * DeltaDen * items[i].curPos[c] =
              2 * (DeltaDen - 2) * items[i].tPos[c] + 2 * DeltaDen * items[i].sPos[c]

\* ---- C7 -------------------------------------------------------------------
\* C7: no frame and no toggle changes any particle's tPos or sPos, or the
\* number of particles.
C7_TargetsImmutable ==
    [][/\ DOMAIN items' = DOMAIN items
       /\ \A i \in DOMAIN items :
             /\ items'[i].tPos = items[i].tPos
             /\ items'[i].sPos = items[i].sPos]_vars

\* All frames spent, in both modes, and every curPos has left its start.
C7_Witness ==
    /\ frame = MaxFrames /\ mode = "SCATTERED" /\ uProgress # 0 /\ uProgress # Scale
    /\ \A i \in Particles :
          /\ items[i].curPos \notin {Zero, items[i].tPos, items[i].sPos} \cup StartPositions
          /\ items[i].tPos \in TreePositions
          /\ items[i].sPos \in ScatteredPositions(variant)

\* ---- C8 -------------------------------------------------------------------
\* C8: mode starts as TREE, is always TREE or SCATTERED, no frame changes it,
\* and every other step (a toggle) flips it to the other value.
C8_ModeTwoValued ==
    /\ mode = "TREE"
    /\ [](mode \in Modes)
    /\ [][/\ FrameStep => mode' = mode
          /\ ~FrameStep => /\ mode' # mode
                           /\ mode' \in Modes]_vars

\* Variant 1 back in TREE mode with every particle sitting on its scattered
\* position: TREE -> SCATTERED, a frame with k * delta = 1, SCATTERED -> TREE.
C8_Witness ==
    /\ variant = 1 /\ frame = 1 /\ mode = "TREE"
    /\ \A i \in Particles : items[i].curPos = items[i].sPos

\* ---- C9 -------------------------------------------------------------------
\* C9: a particle whose curPos equals its active target still equals it after
\* a frame with any non-negative delta.
C9_FixedPoint ==
    [][(FrameStep /\ lastDelta' >= 0) =>
          \A i \in Particles :
             items[i].curPos = Target(i) => items'[i].curPos = Target(i)]_vars

\* A frame of a whole second (step factor 2 or 3) ends on the target only when
\* it started there: the reflection of any other point is off the target.
C9_Witness ==
    /\ frame >= 2 /\ lastDelta = DeltaDen
    /\ \A i \in Particles : items[i].curPos = Target(i)

\* ---- C10 ------------------------------------------------------------------
\* C10: while every frame has 0 <= 2 * delta <= 1, uProgress stays in [0, 1],
\* never decreases in a SCATTERED frame and never increases in a TREE frame.
C10_ProgressInRange ==
    /\ [](0 <= uProgress /\ uProgress <= Scale)
    /\ [][FrameStep =>
            /\ mode = "SCATTERED" => uProgress' >= uProgress
            /\ mode = "TREE" => uProgress' <= uProgress]_vars

\* Part of the way out and coming back.
C10_Witness ==
    /\ frame = MaxFrames /\ mode = "TREE" /\ lastDelta > 0
    /\ 0 < uProgress /\ uProgress < Scale \div 2

====
